---- MODULE Spec2Model ----
(***************************************************************************)
(* Voice-call session and human-agent handoff signaling of the two browser *)
(* clients of the repository:                                              *)
(*   - the customer dashboard (startVoiceCall .. addTransferTranscriptEntry *)
(*     in src/deploy/ec2-setup.sh, WebRTC handoff), page = "dashboard";     *)
(*   - the stand-alone voice page (src/voice_dashboard/static/voice.js,    *)
(*     Jitsi handoff), page = "voice".                                     *)
(* A browser tab runs one of the two scripts; Init chooses which.          *)
(*                                                                         *)
(* Every JavaScript task (a socket handler, a promise continuation up to   *)
(* its next await, a timer callback, a click handler) is one action.       *)
(* The backend and the agent are the environment: they deliver events      *)
(* over the socket while it is connected.  socket.io dispatches an event   *)
(* to its handlers only while the socket is connected, and a socket that   *)
(* the client disconnected receives nothing more.                          *)
(***************************************************************************)
EXTENDS Integers, Sequences, FiniteSets, TLC

(* ---- bounds ---- *)
MaxSessions == 2      \* calls started in one page
HandoffSessions == 1  \* ... in a run of SpecHandoff
TransferSessions == 1 \* ... in a run of SpecTransfer
MaxAgents == 2        \* distinct agent socket ids
MaxNeg == 2           \* startWebRTCCall invocations in one page
MaxCand == 2          \* remote ICE candidates received in one session
MaxTranscript == 2    \* entries shown in the transcript element
MaxTimers == 2        \* call-duration intervals scheduled at one time
MaxStartCalls == 2    \* start_call emissions of one session
MaxClock == 1         \* last value read from Date.now()
MaxHideTimers == 1    \* pending container-removal timeouts that are told apart
MaxNotices == 2       \* no-agents notices shown in one page

NULL == 0

Sessions == 1..MaxSessions
Agents == 1..MaxAgents
Negs == 1..MaxNeg
Reasons == {"customer_request", "escalation"}
Clock == 0..MaxClock

VARIABLES
    page,                   \* which script the tab runs
    \* ---- dashboard: module-level variables ----
    voiceSocket,            \* NULL or the socket of session n
    sockConnected,          \* voiceSocket.connected
    voiceCallActive,
    voiceTimerInterval,     \* TRUE iff non-null
    voiceRecognition,       \* TRUE iff non-null
    \* ---- dashboard: window.* of the handoff ----
    transferSessionId,
    agentSocketId,
    peerConnection,         \* NULL or the id of an RTCPeerConnection
    localStream,            \* NULL or the id of a MediaStream
    transferRecognition,    \* TRUE iff non-null
    pendingIceCandidates,
    transferContainer,      \* #transfer-transcript-container is in the document
    \* ---- dashboard: objects and tasks of the runtime ----
    micStart,               \* startVoiceCall's getUserMedia: "none" | "pending"
    pcs,                    \* the RTCPeerConnection objects created so far
    wtask,                  \* the startWebRTCCall invocations
    negCount,               \* number of startWebRTCCall invocations
    ansTask,                \* the webrtc_answer handler in flight
    hideTimers,             \* pending setTimeout of endWebRTCCall
    liveTimers,             \* setInterval handles not cleared
    recogMade,              \* a recognizer object exists in the page
    xrecogs,                \* startWebRTCCall invocations whose transfer
                            \* recognizer has been created
    transferTranscript,     \* the entries of #transfer-transcript
    callStreamLive,         \* a stream of startVoiceCall has live tracks
    noAgentNotices,         \* no-agents toasts shown
    waiting,                \* the backend's waiting window for an agent is open
    micError,               \* the last start was answered with the microphone error
    \* ---- voice page: module-level variables ----
    vConnected,             \* socket.connected
    sessionId,
    isInCall,
    timerInterval,          \* TRUE iff non-null
    isListening,
    vMic,                   \* startCall's getUserMedia: "none" | "pending"
    jitsiWindow,            \* window.customerJitsiWindow is set
    \* ---- what the page has done (history of the run) ----
    sess,                   \* sessions started so far (the current one is sess)
    startCalls,             \* start_call emitted, per session
    endCalls,               \* end_call emitted, per session
    endNotices,             \* call-ended notices shown, per session
    offers,                 \* webrtc_offer messages emitted
    pcMade,                 \* RTCPeerConnections created, per session
    iceSeen,                \* remote candidates received in this session
    queued,                 \* ... of which pushed on pendingIceCandidates
    applied,                \* ... passed to addIceCandidate, in call order
    skipped,                \* ... whose flush turn found no peer connection
    rejected,               \* ... whose addIceCandidate was rejected
    transcript,             \* the entries of the transcript element
    out,                    \* the messages the last task emitted
    fault                   \* the last task ended in an uncaught exception

dashCore == <<voiceSocket, sockConnected, voiceCallActive, voiceTimerInterval,
              voiceRecognition, liveTimers, recogMade>>
xferVars == <<transferSessionId, agentSocketId, peerConnection, localStream,
              transferRecognition, transferContainer, hideTimers>>
negVars == <<pcs, wtask, negCount, ansTask, pendingIceCandidates>>
iceHist == <<iceSeen, queued, applied, skipped, rejected>>
voiceVars == <<vConnected, sessionId, isInCall, timerInterval, isListening,
               vMic, jitsiWindow>>
callHist == <<sess, startCalls, endCalls, endNotices>>
xferHist == <<offers, pcMade>>
stepVars == <<out, fault>>
humanVars == <<xrecogs, transferTranscript, callStreamLive, noAgentNotices,
               waiting, micError>>

vars == <<page, dashCore, xferVars, negVars, micStart, iceHist,
          voiceVars, callHist, xferHist, transcript, stepVars, humanVars>>

(* ---- values ---- *)
Range(s) == {s[i] : i \in 1..Len(s)}

Msg(type, sid, target, room, reason) ==
    [type |-> type, sid |-> sid, target |-> target, room |-> room,
     reason |-> reason]

NoPc == [st |-> "none", conn |-> "new"]
ClosedPc == [st |-> "closed", conn |-> "closed"]
NoTask == [step |-> "none", agent |-> NULL, sid |-> NULL, tgt |-> NULL,
           late |-> FALSE]
\* A startWebRTCCall invocation that has returned; its closure still holds
\* the session id and the agent for the callbacks of its connection.
Done(t) == [t EXCEPT !.step = "done", !.tgt = NULL]
NoAns == [step |-> "none", pc |-> NULL, idx |-> 0]

Inc(f, k) == [f EXCEPT ![k] = @ + 1]

Step(msgs, threw) ==
    /\ out' = msgs
    /\ fault' = threw

Init ==
    /\ page \in {"dashboard", "voice"}
    /\ voiceSocket = NULL
    /\ sockConnected = FALSE
    /\ voiceCallActive = FALSE
    /\ voiceTimerInterval = FALSE
    /\ voiceRecognition = FALSE
    /\ transferSessionId = NULL
    /\ agentSocketId = NULL
    /\ peerConnection = NULL
    /\ localStream = NULL
    /\ transferRecognition = FALSE
    /\ pendingIceCandidates = <<>>
    /\ transferContainer = FALSE
    /\ micStart = "none"
    /\ pcs = [k \in Negs |-> NoPc]
    /\ wtask = [k \in Negs |-> NoTask]
    /\ negCount = 0
    /\ ansTask = NoAns
    /\ hideTimers = 0
    /\ liveTimers = 0
    /\ recogMade = FALSE
    /\ xrecogs = {}
    /\ transferTranscript = <<>>
    /\ callStreamLive = FALSE
    /\ noAgentNotices = 0
    /\ waiting = FALSE
    /\ micError = FALSE
    /\ vConnected = FALSE
    /\ sessionId = NULL
    /\ isInCall = FALSE
    /\ timerInterval = FALSE
    /\ isListening = FALSE
    /\ vMic = "none"
    /\ jitsiWindow = FALSE
    /\ sess = 0
    /\ startCalls = [s \in Sessions |-> 0]
    /\ endCalls = [s \in Sessions |-> 0]
    /\ endNotices = [s \in Sessions |-> 0]
    /\ offers = <<>>
    /\ pcMade = [s \in Sessions |-> 0]
    /\ iceSeen = 0
    /\ queued = {}
    /\ applied = <<>>
    /\ skipped = {}
    /\ rejected = {}
    /\ transcript = <<>>
    /\ out = <<>>
    /\ fault = FALSE

(***************************************************************************)
(* Customer dashboard                                                      *)
(***************************************************************************)
Dash == page = "dashboard"

\* The backend addresses a session only between its call_started and its end.
DashDelivers == Dash /\ voiceSocket # NULL /\ sockConnected /\ voiceCallActive

\* The agent of a session sends answers, candidates and hangups only after
\* an offer of that session has reached it.
OfferSent(s) == \E i \in 1..Len(offers) : offers[i].sid = s

\* The room identifiers of the two pages: `webrtc_${sid}_${t}` and
\* `bsmart${sid}${t}`.
DashRoomName(sid, t) == <<"webrtc", sid, t>>

JitsiRoomName(sid, t) == <<"bsmart", sid, t>>

\* cleanupVoiceCall.  voiceSocket.disconnect() runs the disconnect handler
\* at once, which finds voiceCallActive false and does nothing.
CleanupVoiceCall ==
    /\ voiceCallActive' = FALSE
    /\ voiceRecognition' = FALSE
    /\ voiceTimerInterval' = FALSE
    /\ liveTimers' = IF voiceTimerInterval THEN liveTimers - 1 ELSE liveTimers
    /\ voiceSocket' = NULL
    /\ sockConnected' = FALSE
    /\ UNCHANGED recogMade

\* endWebRTCCall; base is pcs as the calling task leaves it.
\* voiceSocket.emit throws when cleanupVoiceCall has set voiceSocket to
\* null, and the function then ends before its setTimeout.
EndWebRTCCall(base) ==
    LET notify == agentSocketId # NULL /\ transferSessionId # NULL
        throws == notify /\ voiceSocket = NULL
    IN  /\ localStream' = NULL
        /\ pcs' = IF peerConnection # NULL
                  THEN [base EXCEPT ![peerConnection] = ClosedPc]
                  ELSE base
        /\ peerConnection' = NULL
        /\ transferRecognition' = FALSE
        /\ hideTimers' = IF throws \/ hideTimers = MaxHideTimers
                         THEN hideTimers ELSE hideTimers + 1
        /\ Step(IF notify /\ ~throws
                THEN <<Msg("webrtc_hangup", transferSessionId, agentSocketId, <<>>, "")>>
                ELSE <<>>,
                throws)
        /\ UNCHANGED <<transferSessionId, agentSocketId, transferContainer>>

\* startVoiceCall with valid name and phone: asks for the microphone.  The
\* user starts a call when no call of the page is being set up or running.
StartVoiceCall ==
    /\ Dash
    /\ voiceSocket = NULL
    /\ micStart = "none"
    /\ sess < MaxSessions
    /\ micStart' = "pending"
    /\ Step(<<>>, FALSE)
    /\ UNCHANGED <<page, dashCore, xferVars, negVars, iceHist, voiceVars,
                   callHist, xferHist, transcript>>
    /\ micError' = FALSE
    /\ UNCHANGED <<xrecogs, transferTranscript, callStreamLive,
                   noAgentNotices, waiting>>

\* A startVoiceCall that goes on to initVoiceCall whatever getUserMedia says.
MicResultAnyway(granted) ==
    /\ Dash
    /\ micStart = "pending"
    /\ micStart' = "none"
    /\ ansTask.step = "none"
    /\ sess' = sess + 1
    /\ voiceSocket' = sess + 1
    /\ sockConnected' = FALSE
    /\ pendingIceCandidates' = <<>>
    /\ iceSeen' = 0
    /\ queued' = {}
    /\ applied' = <<>>
    /\ skipped' = {}
    /\ rejected' = {}
    /\ Step(<<>>, FALSE)
    /\ UNCHANGED <<page, voiceCallActive, voiceTimerInterval,
                   voiceRecognition, liveTimers, recogMade,
                   xferVars, pcs, wtask, negCount, ansTask, voiceVars,
                   startCalls, endCalls, endNotices, xferHist, transcript>>
    /\ callStreamLive' = (callStreamLive \/ granted)
    /\ micError' = ~granted
    /\ UNCHANGED <<xrecogs, transferTranscript, noAgentNotices, waiting>>

\* getUserMedia of startVoiceCall settles: initVoiceCall, or the error toast.
MicResult(granted) ==
    /\ Dash
    /\ micStart = "pending"
    /\ micStart' = "none"
    /\ IF granted
       THEN /\ ansTask.step = "none"
            /\ sess' = sess + 1
            /\ voiceSocket' = sess + 1
            /\ sockConnected' = FALSE
            /\ pendingIceCandidates' = <<>>
            /\ iceSeen' = 0
            /\ queued' = {}
            /\ applied' = <<>>
            /\ skipped' = {}
            /\ rejected' = {}
            /\ Step(<<>>, FALSE)
       ELSE /\ Step(<<>>, FALSE)
            /\ UNCHANGED <<sess, voiceSocket, sockConnected,
                           pendingIceCandidates, iceHist>>
    /\ UNCHANGED <<page, voiceCallActive, voiceTimerInterval,
                   voiceRecognition, liveTimers, recogMade,
                   xferVars, pcs, wtask, negCount, ansTask, voiceVars,
                   startCalls, endCalls, endNotices, xferHist, transcript>>
    /\ callStreamLive' = (callStreamLive \/ granted)
    /\ micError' = ~granted
    /\ UNCHANGED <<xrecogs, transferTranscript, noAgentNotices, waiting>>

\* 'connect': emits start_call, on the first connect and on every reconnect.
DashConnect ==
    /\ Dash
    /\ voiceSocket # NULL
    /\ ~sockConnected
    /\ startCalls[voiceSocket] < MaxStartCalls
    /\ sockConnected' = TRUE
    /\ startCalls' = Inc(startCalls, voiceSocket)
    /\ Step(<<Msg("start_call", voiceSocket, NULL, <<>>, "")>>, FALSE)
    /\ UNCHANGED <<page, voiceSocket, voiceCallActive, voiceTimerInterval,
                   voiceRecognition, liveTimers, recogMade, xferVars,
                   negVars, micStart, iceHist, voiceVars, sess, endCalls,
                   endNotices, xferHist, transcript>>
    /\ UNCHANGED humanVars

\* 'disconnect' after a transport drop.
DashDisconnect ==
    /\ Dash
    /\ voiceSocket # NULL
    /\ sockConnected
    /\ IF voiceCallActive
       THEN CleanupVoiceCall
       ELSE /\ sockConnected' = FALSE
            /\ UNCHANGED <<voiceSocket, voiceCallActive, voiceTimerInterval,
                           voiceRecognition, liveTimers, recogMade>>
    /\ Step(<<>>, FALSE)
    /\ UNCHANGED <<page, xferVars, negVars, micStart, iceHist, voiceVars,
                   callHist, xferHist, transcript>>
    /\ UNCHANGED humanVars

\* 'call_started'
DashCallStarted ==
    /\ Dash
    /\ voiceSocket # NULL
    /\ sockConnected
    /\ liveTimers < MaxTimers
    /\ voiceCallActive' = TRUE
    /\ transcript' = <<"agent">>
    /\ voiceTimerInterval' = TRUE
    /\ liveTimers' = liveTimers + 1
    /\ voiceRecognition' = TRUE
    /\ recogMade' = TRUE
    /\ Step(<<>>, FALSE)
    /\ UNCHANGED <<page, voiceSocket, sockConnected, xferVars, negVars,
                   micStart, iceHist, voiceVars, callHist, xferHist>>
    /\ UNCHANGED humanVars

\* 'agent_response'
DashAgentResponse ==
    /\ DashDelivers
    /\ Len(transcript) < MaxTranscript
    /\ transcript' = Append(transcript, "agent")
    /\ Step(<<>>, FALSE)
    /\ UNCHANGED <<page, dashCore, xferVars, negVars, micStart, iceHist,
                   voiceVars, callHist, xferHist>>
    /\ UNCHANGED humanVars

\* voiceRecognition.onresult of a recognizer of the page, with one result.
DashRecognitionResult(final, text) ==
    /\ Dash
    /\ recogMade
    /\ IF final /\ voiceSocket # NULL /\ sockConnected /\ text
       THEN /\ Len(transcript) < MaxTranscript
            /\ transcript' = Append(transcript, "customer")
            /\ Step(<<Msg("user_message", voiceSocket, NULL, <<>>, "")>>, FALSE)
       ELSE /\ Step(<<>>, FALSE)
            /\ UNCHANGED transcript
    /\ UNCHANGED <<page, dashCore, xferVars, negVars, micStart, iceHist,
                   voiceVars, callHist, xferHist>>
    /\ UNCHANGED humanVars

\* 'transfer_call'; t is what Date.now() returns.
DashTransferCall(reason, t) ==
    /\ DashDelivers
    /\ transferSessionId' = voiceSocket
    /\ voiceRecognition' = FALSE
    /\ transferContainer' = TRUE
    /\ Step(<<Msg("agent_transfer_room", voiceSocket, NULL,
                  DashRoomName(voiceSocket, t), reason)>>, FALSE)
    /\ UNCHANGED <<page, voiceSocket, sockConnected, voiceCallActive,
                   voiceTimerInterval, liveTimers, recogMade, agentSocketId,
                   peerConnection, localStream, transferRecognition, hideTimers,
                   negVars, micStart, iceHist, voiceVars, callHist, xferHist,
                   transcript>>
    /\ waiting' = TRUE
    /\ UNCHANGED <<xrecogs, transferTranscript, callStreamLive,
                   noAgentNotices, micError>>

\* Agent socket ids are opaque: they are numbered in the order in which the
\* page first accepts them.
AgentsKnown ==
    IF negCount = 0 THEN 0
    ELSE CHOOSE m \in Agents :
            /\ \E k \in 1..negCount : wtask[k].agent = m
            /\ \A k \in 1..negCount : wtask[k].agent <= m

\* endWebRTCCall has closed a connection of session s.
HungUp(s) == \E k \in Negs : wtask[k].sid = s /\ pcs[k].st = "closed"

\* 'agent_ready_for_call': ignored while window.peerConnection is set,
\* otherwise records the agent and calls startWebRTCCall, which runs up to
\* its await of getUserMedia.  Agents answer the transfer request of the
\* session, so the event follows the session's transfer_call.
DashAgentReady(a) ==
    /\ DashDelivers
    /\ transferSessionId = voiceSocket
    /\ IF peerConnection # NULL
       THEN UNCHANGED <<agentSocketId, transferSessionId, wtask, negCount>>
       ELSE /\ negCount < MaxNeg
            /\ a <= AgentsKnown + 1
            /\ agentSocketId' = a
            /\ transferSessionId' = voiceSocket
            /\ negCount' = negCount + 1
            /\ wtask' = [wtask EXCEPT ![negCount + 1] =
                            [step |-> "gum", agent |-> a, sid |-> voiceSocket,
                             tgt |-> NULL, late |-> HungUp(voiceSocket)]]
    /\ Step(<<>>, FALSE)
    /\ UNCHANGED <<page, dashCore, peerConnection, localStream,
                   transferRecognition, transferContainer, hideTimers, pcs,
                   ansTask, pendingIceCandidates, micStart, iceHist, voiceVars,
                   callHist, xferHist, transcript>>
    /\ waiting' = FALSE
    /\ UNCHANGED <<xrecogs, transferTranscript, callStreamLive,
                   noAgentNotices, micError>>

\* 'agent_ready_for_call' for a session that has asked for no transfer: the
\* handler is the same, and takes the session id from the event.
DashAgentReadyUnasked(a) ==
    /\ DashDelivers
    /\ transferSessionId # voiceSocket
    /\ IF peerConnection # NULL
       THEN UNCHANGED <<agentSocketId, transferSessionId, wtask, negCount>>
       ELSE /\ negCount < MaxNeg
            /\ a <= AgentsKnown + 1
            /\ agentSocketId' = a
            /\ transferSessionId' = voiceSocket
            /\ negCount' = negCount + 1
            /\ wtask' = [wtask EXCEPT ![negCount + 1] =
                            [step |-> "gum", agent |-> a, sid |-> voiceSocket,
                             tgt |-> NULL, late |-> HungUp(voiceSocket)]]
    /\ Step(<<>>, FALSE)
    /\ UNCHANGED <<page, dashCore, peerConnection, localStream,
                   transferRecognition, transferContainer, hideTimers, pcs,
                   ansTask, pendingIceCandidates, micStart, iceHist, voiceVars,
                   callHist, xferHist, transcript>>
    /\ UNCHANGED humanVars

\* startWebRTCCall resumes after getUserMedia: on success it stores the
\* stream, creates the RTCPeerConnection and calls createOffer on it.
WebRTCGum(k, granted) ==
    /\ Dash
    /\ wtask[k].step = "gum"
    /\ IF granted
       THEN /\ localStream' = k
            /\ peerConnection' = k
            /\ pcs' = [pcs EXCEPT ![k] = [st |-> "stable", conn |-> "new"]]
            /\ pcMade' = Inc(pcMade, wtask[k].sid)
            /\ wtask' = [wtask EXCEPT ![k].step = "createOffer"]
       ELSE /\ wtask' = [wtask EXCEPT ![k] = Done(@)]
            /\ UNCHANGED <<localStream, peerConnection, pcs, pcMade>>
    /\ Step(<<>>, FALSE)
    /\ UNCHANGED <<page, dashCore, transferSessionId, agentSocketId,
                   transferRecognition, transferContainer, hideTimers, negCount,
                   ansTask, pendingIceCandidates, micStart, iceHist, voiceVars,
                   callHist, offers, transcript>>
    /\ UNCHANGED humanVars

\* ... resumes after createOffer: calls setLocalDescription on whatever
\* window.peerConnection is now; a TypeError on null is caught.
WebRTCCreateOffer(k) ==
    /\ Dash
    /\ wtask[k].step = "createOffer"
    /\ wtask' = [wtask EXCEPT ![k] =
                    IF pcs[k].st = "closed" \/ peerConnection = NULL
                    THEN Done(@)
                    ELSE [@ EXCEPT !.step = "setLocal", !.tgt = peerConnection]]
    /\ Step(<<>>, FALSE)
    /\ UNCHANGED <<page, dashCore, xferVars, pcs, negCount, ansTask,
                   pendingIceCandidates, micStart, iceHist, voiceVars, callHist,
                   xferHist, transcript>>
    /\ UNCHANGED humanVars

\* ... resumes after setLocalDescription: emits webrtc_offer.  The
\* description is refused by a closed connection and by a connection other
\* than the one that created the offer; voiceSocket.emit on null is caught.
WebRTCSetLocal(k) ==
    /\ Dash
    /\ wtask[k].step = "setLocal"
    /\ wtask' = [wtask EXCEPT ![k] = Done(@)]
    /\ LET t == wtask[k].tgt
           ok == t = k /\ pcs[t].st = "stable"
       IN  /\ pcs' = IF ok THEN [pcs EXCEPT ![t].st = "offered"] ELSE pcs
           /\ IF ok /\ voiceSocket # NULL
              THEN /\ offers' = Append(offers, [sid |-> wtask[k].sid,
                                                target |-> wtask[k].agent,
                                                pc |-> k])
                   /\ Step(<<Msg("webrtc_offer", wtask[k].sid, wtask[k].agent,
                                 <<>>, "")>>, FALSE)
              ELSE /\ Step(<<>>, FALSE)
                   /\ UNCHANGED offers
    /\ UNCHANGED <<page, dashCore, xferVars, negCount, ansTask,
                   pendingIceCandidates, micStart, iceHist, voiceVars, callHist,
                   pcMade, transcript>>
    /\ UNCHANGED humanVars

\* 'webrtc_answer': calls setRemoteDescription on window.peerConnection and
\* awaits it; without a peer connection the answer is dropped.  An answer
\* arrives when the handler of the answer before it has returned.
DashWebrtcAnswer ==
    /\ DashDelivers
    /\ OfferSent(voiceSocket)
    /\ ansTask.step = "none"
    /\ ansTask' = IF peerConnection # NULL
                  THEN [step |-> "srd", pc |-> peerConnection, idx |-> 0]
                  ELSE ansTask
    /\ Step(<<>>, FALSE)
    /\ UNCHANGED <<page, dashCore, xferVars, pcs, wtask, negCount,
                   pendingIceCandidates, micStart, iceHist, voiceVars, callHist,
                   xferHist, transcript>>
    /\ UNCHANGED humanVars

\* A handler that resets the queue without processing it.
FlushFromDrop(i) ==
    /\ pendingIceCandidates' = <<>>
    /\ ansTask' = NoAns
    /\ UNCHANGED <<applied, skipped>>

\* The loop over window.pendingIceCandidates from element i on, as far as it
\* runs without waiting.  A turn that finds window.peerConnection null throws
\* at once into the inner catch, so the rest of the array is passed over in
\* the same task; otherwise the element is given to addIceCandidate and the
\* loop awaits.  After the last element the queue is replaced by [].
FlushFrom(i) ==
    IF i > Len(pendingIceCandidates)
    THEN /\ pendingIceCandidates' = <<>>
         /\ ansTask' = NoAns
         /\ UNCHANGED <<applied, skipped>>
    ELSE IF peerConnection = NULL
    THEN /\ skipped' = skipped \cup
                {pendingIceCandidates[j] : j \in i..Len(pendingIceCandidates)}
         /\ pendingIceCandidates' = <<>>
         /\ ansTask' = NoAns
         /\ UNCHANGED applied
    ELSE /\ applied' = Append(applied, pendingIceCandidates[i])
         /\ ansTask' = [ansTask EXCEPT !.step = "flush", !.idx = i + 1]
         /\ UNCHANGED <<pendingIceCandidates, skipped>>

\* The answer handler resumes after setRemoteDescription: an answer is
\* accepted by a connection that holds its local offer and refused by any
\* other; on success the pending candidates are processed.
AnswerSrd ==
    /\ Dash
    /\ ansTask.step = "srd"
    /\ IF pcs[ansTask.pc].st = "offered"
       THEN /\ pcs' = [pcs EXCEPT ![ansTask.pc].st = "answered"]
            /\ IF Len(pendingIceCandidates) > 0
               THEN FlushFrom(1)
               ELSE /\ ansTask' = NoAns
                    /\ UNCHANGED <<pendingIceCandidates, applied, skipped>>
       ELSE /\ ansTask' = NoAns
            /\ UNCHANGED <<pcs, pendingIceCandidates, applied, skipped>>
    /\ Step(<<>>, FALSE)
    /\ UNCHANGED <<page, dashCore, xferVars, wtask, negCount, micStart,
                   iceSeen, queued, voiceVars, callHist, xferHist, transcript>>
    /\ UNCHANGED humanVars
    /\ UNCHANGED rejected

\* ... resumes after an addIceCandidate of the loop.
AnswerFlush ==
    /\ Dash
    /\ ansTask.step = "flush"
    /\ FlushFrom(ansTask.idx)
    /\ Step(<<>>, FALSE)
    /\ UNCHANGED <<page, dashCore, xferVars, pcs, wtask, negCount,
                   micStart, iceSeen, queued, voiceVars, callHist, xferHist,
                   transcript>>
    /\ UNCHANGED humanVars
    /\ UNCHANGED rejected

\* An answer handler without the try and catch around addIceCandidate: the
\* rejection leaves the loop for the outer catch, and the queue as it is.
AnswerFlushAbort ==
    /\ Dash
    /\ ansTask.step = "flush"
    /\ rejected' = rejected \cup {pendingIceCandidates[ansTask.idx - 1]}
    /\ ansTask' = NoAns
    /\ Step(<<>>, FALSE)
    /\ UNCHANGED <<page, dashCore, xferVars, pcs, wtask, negCount,
                   pendingIceCandidates, applied, skipped,
                   micStart, iceSeen, queued, voiceVars, callHist, xferHist,
                   transcript>>
    /\ UNCHANGED humanVars

\* ... resumes after an addIceCandidate of the loop that was rejected: the
\* inner catch logs the error and the loop goes on.
AnswerFlushRejected ==
    /\ Dash
    /\ ansTask.step = "flush"
    /\ rejected' = rejected \cup {pendingIceCandidates[ansTask.idx - 1]}
    /\ FlushFrom(ansTask.idx)
    /\ Step(<<>>, FALSE)
    /\ UNCHANGED <<page, dashCore, xferVars, pcs, wtask, negCount,
                   micStart, iceSeen, queued, voiceVars, callHist, xferHist,
                   transcript>>
    /\ UNCHANGED humanVars

\* 'webrtc_ice_candidate' with a candidate: applied when the connection has
\* its remote description, queued otherwise.
DashWebrtcIce ==
    /\ DashDelivers
    /\ OfferSent(voiceSocket)
    /\ iceSeen < MaxCand
    /\ iceSeen' = iceSeen + 1
    /\ IF peerConnection # NULL /\ pcs[peerConnection].st = "answered"
       THEN /\ applied' = Append(applied, iceSeen + 1)
            /\ UNCHANGED <<pendingIceCandidates, queued>>
       ELSE /\ pendingIceCandidates' = Append(pendingIceCandidates, iceSeen + 1)
            /\ queued' = queued \cup {iceSeen + 1}
            /\ UNCHANGED applied
    /\ Step(<<>>, FALSE)
    /\ UNCHANGED <<page, dashCore, xferVars, pcs, wtask, negCount, ansTask,
                   micStart, skipped, rejected, voiceVars, callHist, xferHist,
                   transcript>>
    /\ UNCHANGED humanVars

\* 'webrtc_ice_candidate' with a candidate that addIceCandidate rejects: the
\* catch of the handler logs the error, and the handler ends.
DashWebrtcIceRejected ==
    /\ DashDelivers
    /\ OfferSent(voiceSocket)
    /\ iceSeen < MaxCand
    /\ iceSeen' = iceSeen + 1
    /\ IF peerConnection # NULL /\ pcs[peerConnection].st = "answered"
       THEN /\ applied' = Append(applied, iceSeen + 1)
            /\ rejected' = rejected \cup {iceSeen + 1}
            /\ UNCHANGED <<pendingIceCandidates, queued>>
       ELSE /\ pendingIceCandidates' = Append(pendingIceCandidates, iceSeen + 1)
            /\ queued' = queued \cup {iceSeen + 1}
            /\ UNCHANGED <<applied, rejected>>
    /\ Step(<<>>, FALSE)
    /\ UNCHANGED <<page, dashCore, xferVars, pcs, wtask, negCount, ansTask,
                   micStart, skipped, voiceVars, callHist, xferHist, transcript>>
    /\ UNCHANGED humanVars

\* 'webrtc_hangup'
DashWebrtcHangup ==
    /\ DashDelivers
    /\ OfferSent(voiceSocket)
    /\ EndWebRTCCall(pcs)
    /\ UNCHANGED <<page, dashCore, wtask, negCount, ansTask,
                   pendingIceCandidates, micStart, iceHist, voiceVars, callHist,
                   xferHist, transcript>>
    /\ UNCHANGED humanVars

\* The End Call button of the transfer transcript container.
EndCallButton ==
    /\ Dash
    /\ transferContainer
    /\ EndWebRTCCall(pcs)
    /\ UNCHANGED <<page, dashCore, wtask, negCount, ansTask,
                   pendingIceCandidates, micStart, iceHist, voiceVars, callHist,
                   xferHist, transcript>>
    /\ UNCHANGED humanVars

\* The setTimeout of endWebRTCCall removes the transcript container.
HideTimerFires ==
    /\ Dash
    /\ hideTimers > 0
    /\ hideTimers' = hideTimers - 1
    /\ transferContainer' = FALSE
    /\ Step(<<>>, FALSE)
    /\ UNCHANGED <<page, dashCore, transferSessionId, agentSocketId,
                   peerConnection, localStream, transferRecognition, negVars,
                   micStart, iceHist, voiceVars, callHist, xferHist, transcript>>
    /\ transferTranscript' = <<>>
    /\ UNCHANGED <<xrecogs, callStreamLive, noAgentNotices, waiting,
                   micError>>

\* The connection states an RTCPeerConnection can move to: candidates are
\* paired only once both descriptions are set.
ConnNext(pc) ==
    IF pc.st # "answered" THEN {}
    ELSE CASE pc.conn = "new" -> {"connected", "failed"}
           [] pc.conn = "connected" -> {"disconnected"}
           [] pc.conn = "disconnected" -> {"connected", "failed"}
           [] OTHER -> {}

\* onconnectionstatechange of connection k.  The callback reads the state of
\* window.peerConnection, whichever connection that is now, and throws when
\* it is null.
PcStateChange(k, c) ==
    /\ Dash
    /\ c \in ConnNext(pcs[k])
    /\ LET base == [pcs EXCEPT ![k].conn = c]
       IN  IF peerConnection = NULL
           THEN /\ pcs' = base
                /\ Step(<<>>, TRUE)
                /\ UNCHANGED xferVars
           ELSE IF base[peerConnection].conn = "connected"
           THEN /\ pcs' = base
                /\ transferRecognition' = TRUE
                /\ Step(<<>>, FALSE)
                /\ UNCHANGED <<transferSessionId, agentSocketId, peerConnection,
                               localStream, transferContainer, hideTimers>>
           ELSE IF base[peerConnection].conn \in {"disconnected", "failed"}
           THEN EndWebRTCCall(base)
           ELSE /\ pcs' = base
                /\ Step(<<>>, FALSE)
                /\ UNCHANGED xferVars
    /\ UNCHANGED <<page, dashCore, wtask, negCount, ansTask,
                   pendingIceCandidates, micStart, iceHist, voiceVars, callHist,
                   xferHist, transcript>>
    /\ xrecogs' = IF /\ peerConnection # NULL
                     /\ [pcs EXCEPT ![k].conn = c][peerConnection].conn
                           = "connected"
                  THEN xrecogs \cup {k}
                  ELSE xrecogs
    /\ UNCHANGED <<transferTranscript, callStreamLive, noAgentNotices,
                   waiting, micError>>

\* 'call_transcript': what the agent said.  addTransferTranscriptEntry
\* returns without appending when the transcript element is not in the page.
DashCallTranscript ==
    /\ DashDelivers
    /\ OfferSent(voiceSocket)
    /\ IF transferContainer
       THEN /\ Len(transferTranscript) < MaxTranscript
            /\ transferTranscript' = Append(transferTranscript, "agent")
       ELSE UNCHANGED transferTranscript
    /\ Step(<<>>, FALSE)
    /\ UNCHANGED <<page, dashCore, xferVars, negVars, micStart, iceHist,
                   voiceVars, callHist, xferHist, transcript>>
    /\ UNCHANGED <<xrecogs, callStreamLive, noAgentNotices, waiting,
                   micError>>

\* A recognizer of the human phase that relays every result it is given.
TransferRecognitionResultAll(k, final, text) ==
    /\ Dash
    /\ k \in xrecogs
    /\ IF transferContainer
       THEN /\ Len(transferTranscript) < MaxTranscript
            /\ transferTranscript' = Append(transferTranscript, "customer")
       ELSE UNCHANGED transferTranscript
    /\ Step(IF voiceSocket = NULL THEN <<>>
            ELSE <<Msg("call_transcript", wtask[k].sid, wtask[k].agent,
                       <<>>, "")>>,
            voiceSocket = NULL)
    /\ UNCHANGED <<page, dashCore, xferVars, negVars, micStart, iceHist,
                   voiceVars, callHist, xferHist, transcript>>
    /\ UNCHANGED <<xrecogs, callStreamLive, noAgentNotices, waiting,
                   micError>>

\* onresult of the recognizer that the connection callback of invocation k
\* created; the session id and the agent are those of its closure.  The
\* entry is added before the emit, which throws when voiceSocket is null.
TransferRecognitionResult(k, final, text) ==
    /\ Dash
    /\ k \in xrecogs
    /\ IF final /\ text
       THEN /\ IF transferContainer
               THEN /\ Len(transferTranscript) < MaxTranscript
                    /\ transferTranscript' =
                           Append(transferTranscript, "customer")
               ELSE UNCHANGED transferTranscript
            /\ Step(IF voiceSocket = NULL THEN <<>>
                    ELSE <<Msg("call_transcript", wtask[k].sid, wtask[k].agent,
                               <<>>, "")>>,
                    voiceSocket = NULL)
       ELSE /\ Step(<<>>, FALSE)
            /\ UNCHANGED transferTranscript
    /\ UNCHANGED <<page, dashCore, xferVars, negVars, micStart, iceHist,
                   voiceVars, callHist, xferHist, transcript>>
    /\ UNCHANGED <<xrecogs, callStreamLive, noAgentNotices, waiting,
                   micError>>

\* onicecandidate of connection k: gathering runs once the local description
\* is set; the event without a candidate ends it.
LocalIceCandidate(k, cand) ==
    /\ Dash
    /\ pcs[k].st \in {"offered", "answered"}
    /\ Step(IF cand /\ voiceSocket # NULL
            THEN <<Msg("webrtc_ice_candidate", wtask[k].sid, wtask[k].agent,
                       <<>>, "")>>
            ELSE <<>>,
            cand /\ voiceSocket = NULL)
    /\ UNCHANGED <<page, dashCore, xferVars, negVars, micStart, iceHist,
                   voiceVars, callHist, xferHist, transcript>>
    /\ UNCHANGED humanVars

\* The backend sends no_agents_available when the waiting window of a
\* transfer request runs out with no agent ready: one event for one window.
\* The window opens with agent_transfer_room and ends with the event or with
\* the agent's answer.
NoAgentsSent == waiting

\* A handler of 'no_agents_available' that gives the call up.
DashNoAgentsEnds ==
    /\ DashDelivers
    /\ NoAgentsSent
    /\ noAgentNotices < MaxNotices
    /\ noAgentNotices' = noAgentNotices + 1
    /\ waiting' = FALSE
    /\ Step(<<>>, FALSE)
    /\ CleanupVoiceCall
    /\ UNCHANGED <<page, xferVars, negVars, micStart, iceHist, voiceVars,
                   callHist, xferHist, transcript>>
    /\ UNCHANGED <<xrecogs, transferTranscript, callStreamLive, micError>>

\* A handler of 'no_agents_available' that shows the notice twice.
DashNoAgentsTwice ==
    /\ DashDelivers
    /\ NoAgentsSent
    /\ noAgentNotices < MaxNotices
    /\ noAgentNotices' = noAgentNotices + 2
    /\ waiting' = FALSE
    /\ Step(<<>>, FALSE)
    /\ UNCHANGED <<page, dashCore, xferVars, negVars, micStart, iceHist,
                   voiceVars, callHist, xferHist, transcript>>
    /\ UNCHANGED <<xrecogs, transferTranscript, callStreamLive, micError>>

\* 'no_agents_available': a toast and the status text.  The backend sends
\* the event when the waiting window of a transfer request runs out with no
\* agent ready, and the window ends with it.
DashNoAgents ==
    /\ DashDelivers
    /\ NoAgentsSent
    /\ noAgentNotices < MaxNotices
    /\ noAgentNotices' = noAgentNotices + 1
    /\ waiting' = FALSE
    /\ Step(<<>>, FALSE)
    /\ UNCHANGED <<page, dashCore, xferVars, negVars, micStart, iceHist,
                   voiceVars, callHist, xferHist, transcript>>
    /\ UNCHANGED <<xrecogs, transferTranscript, callStreamLive, micError>>

\* endVoiceCall, from the End button of the active-call panel.
EndVoiceCall ==
    /\ Dash
    /\ voiceCallActive
    /\ IF voiceSocket # NULL /\ sockConnected
       THEN /\ endCalls' = Inc(endCalls, voiceSocket)
            /\ Step(<<Msg("end_call", voiceSocket, NULL, <<>>, "")>>, FALSE)
       ELSE /\ Step(<<>>, FALSE)
            /\ UNCHANGED endCalls
    /\ CleanupVoiceCall
    /\ UNCHANGED <<page, xferVars, negVars, micStart, iceHist, voiceVars,
                   sess, startCalls, endNotices, xferHist, transcript>>
    /\ UNCHANGED humanVars

\* 'call_ended'
DashCallEnded ==
    /\ DashDelivers
    /\ CleanupVoiceCall
    /\ endNotices' = Inc(endNotices, voiceSocket)
    /\ Step(<<>>, FALSE)
    /\ UNCHANGED <<page, xferVars, negVars, micStart, iceHist, voiceVars,
                   sess, startCalls, endCalls, xferHist, transcript>>
    /\ UNCHANGED humanVars

(***************************************************************************)
(* Stand-alone voice page                                                  *)
(***************************************************************************)
Voice == page = "voice"

\* The backend names only sessions the page has asked it to start; what it
\* sends for one of them may arrive late or more than once.
Started == 1..sess

\* 'connect'
VoiceConnect ==
    /\ Voice
    /\ ~vConnected
    /\ vConnected' = TRUE
    /\ Step(<<>>, FALSE)
    /\ UNCHANGED <<page, dashCore, xferVars, negVars, micStart, iceHist,
                   sessionId, isInCall, timerInterval, isListening, vMic,
                   jitsiWindow, callHist, xferHist, transcript>>
    /\ UNCHANGED humanVars

\* endCall
EndCallBody ==
    /\ isListening' = FALSE
    /\ timerInterval' = FALSE
    /\ liveTimers' = IF timerInterval THEN liveTimers - 1 ELSE liveTimers
    /\ IF sessionId # NULL
       THEN /\ endCalls' = Inc(endCalls, sessionId)
            /\ Step(<<Msg("end_call", sessionId, NULL, <<>>, "")>>, FALSE)
       ELSE /\ Step(<<>>, FALSE)
            /\ UNCHANGED endCalls
    /\ isInCall' = FALSE
    /\ sessionId' = NULL

\* The End button, shown from startCall to endCall.
EndCall ==
    /\ Voice
    /\ isInCall
    /\ EndCallBody
    /\ UNCHANGED <<page, voiceSocket, sockConnected, voiceCallActive,
                   voiceTimerInterval, voiceRecognition, recogMade, xferVars,
                   negVars, micStart, iceHist, vConnected, vMic, jitsiWindow,
                   sess, startCalls, endNotices, xferHist, transcript>>
    /\ UNCHANGED humanVars

\* 'disconnect'
VoiceDisconnect ==
    /\ Voice
    /\ vConnected
    /\ vConnected' = FALSE
    /\ IF isInCall
       THEN EndCallBody
       ELSE /\ Step(<<>>, FALSE)
            /\ UNCHANGED <<isListening, timerInterval, liveTimers, endCalls,
                           isInCall, sessionId>>
    /\ UNCHANGED <<page, voiceSocket, sockConnected, voiceCallActive,
                   voiceTimerInterval, voiceRecognition, recogMade, xferVars,
                   negVars, micStart, iceHist, vMic, jitsiWindow,
                   sess, startCalls, endNotices, xferHist, transcript>>
    /\ UNCHANGED humanVars

\* startCall, from the Call button (hidden from startCall to endCall): asks
\* for the microphone.
StartCall ==
    /\ Voice
    /\ ~isInCall
    /\ vMic = "none"
    /\ sess < MaxSessions
    /\ vMic' = "pending"
    /\ Step(<<>>, FALSE)
    /\ UNCHANGED <<page, dashCore, xferVars, negVars, micStart, iceHist,
                   vConnected, sessionId, isInCall, timerInterval, isListening,
                   jitsiWindow, callHist, xferHist, transcript>>
    /\ micError' = FALSE
    /\ UNCHANGED <<xrecogs, transferTranscript, callStreamLive,
                   noAgentNotices, waiting>>

\* getUserMedia of startCall settles: the call is started, or the error shown.
VoiceMicResult(granted) ==
    /\ Voice
    /\ vMic = "pending"
    /\ vMic' = "none"
    /\ IF granted
       THEN /\ transcript' = <<>>
            /\ sess' = sess + 1
            /\ startCalls' = Inc(startCalls, sess + 1)
            /\ isInCall' = TRUE
            /\ timerInterval' = TRUE
            /\ liveTimers' = liveTimers + 1
            /\ isListening' = TRUE
            /\ Step(<<Msg("start_call", sess + 1, NULL, <<>>, "")>>, FALSE)
       ELSE /\ Step(<<>>, FALSE)
            /\ UNCHANGED <<transcript, sess, startCalls, isInCall, timerInterval,
                           liveTimers, isListening>>
    /\ UNCHANGED <<page, voiceSocket, sockConnected, voiceCallActive,
                   voiceTimerInterval, voiceRecognition, recogMade, xferVars,
                   negVars, micStart, iceHist, vConnected, sessionId,
                   jitsiWindow, endCalls, endNotices, xferHist>>
    /\ micError' = ~granted
    /\ UNCHANGED <<xrecogs, transferTranscript, callStreamLive,
                   noAgentNotices, waiting>>

\* 'call_started'
VoiceCallStarted(id) ==
    /\ Voice
    /\ vConnected
    /\ id \in Started
    /\ Len(transcript) < MaxTranscript
    /\ sessionId' = id
    /\ transcript' = Append(transcript, "agent")
    /\ Step(<<>>, FALSE)
    /\ UNCHANGED <<page, dashCore, xferVars, negVars, micStart, iceHist,
                   vConnected, isInCall, timerInterval, isListening, vMic,
                   jitsiWindow, callHist, xferHist>>
    /\ UNCHANGED humanVars

\* 'agent_response'
VoiceAgentResponse ==
    /\ Voice
    /\ vConnected
    /\ sess > 0
    /\ Len(transcript) < MaxTranscript
    /\ transcript' = Append(transcript, "agent")
    /\ Step(<<>>, FALSE)
    /\ UNCHANGED <<page, dashCore, xferVars, negVars, micStart, iceHist,
                   voiceVars, callHist, xferHist>>
    /\ UNCHANGED humanVars

\* recognition.onresult with one result; sendUserMessage drops empty text
\* and text outside a call.
VoiceRecognitionResult(final, text) ==
    /\ Voice
    /\ sess > 0
    /\ IF final /\ text /\ isInCall
       THEN /\ Len(transcript) < MaxTranscript
            /\ transcript' = Append(transcript, "customer")
            /\ Step(<<Msg("user_message", sessionId, NULL, <<>>, "")>>, FALSE)
       ELSE /\ Step(<<>>, FALSE)
            /\ UNCHANGED transcript
    /\ UNCHANGED <<page, dashCore, xferVars, negVars, micStart, iceHist,
                   voiceVars, callHist, xferHist>>
    /\ UNCHANGED humanVars

\* A modal that never sends the request.
JitsiRoomRequestNone(connected, id, reason, t) == <<>>

\* What showJitsiTransferModal emits at once: the request when the socket is
\* connected; otherwise it calls socket.connect() and leaves the request to
\* a timeout.
JitsiRoomRequest(connected, id, reason, t) ==
    IF connected
    THEN <<Msg("agent_transfer_room", id, NULL, JitsiRoomName(id, t), reason)>>
    ELSE <<>>

\* 'transfer_call': handleCallTransfer and showJitsiTransferModal.  t is
\* what Date.now() returns, popup whether window.open succeeds.  The handler
\* adds the transfer notice and, when the window opens, the call notice to
\* the transcript element.
VoiceTransferCall(id, reason, t, popup) ==
    /\ Voice
    /\ vConnected
    /\ id \in Started
    /\ Len(transcript) + (IF popup THEN 2 ELSE 1) <= MaxTranscript
    /\ transcript' = IF popup THEN transcript \o <<"transfer", "notice">>
                     ELSE Append(transcript, "transfer")
    /\ jitsiWindow' = popup
    /\ Step(JitsiRoomRequest(vConnected, id, reason, t), FALSE)
    /\ UNCHANGED <<page, dashCore, xferVars, negVars, micStart, iceHist,
                   vConnected, sessionId, isInCall, timerInterval, isListening,
                   vMic, callHist, xferHist>>
    /\ UNCHANGED humanVars

\* 'call_ended': handleCallEnded shows the summary when duration_seconds is
\* not zero.
VoiceCallEnded(id, dur) ==
    /\ Voice
    /\ vConnected
    /\ id \in Started
    /\ IF dur # 0
       THEN /\ Len(transcript) < MaxTranscript
            /\ transcript' = Append(transcript, "notice")
            /\ endNotices' = Inc(endNotices, id)
       ELSE UNCHANGED <<transcript, endNotices>>
    /\ Step(<<>>, FALSE)
    /\ UNCHANGED <<page, dashCore, xferVars, negVars, micStart, iceHist,
                   voiceVars, sess, startCalls, endCalls, xferHist>>
    /\ UNCHANGED humanVars

(***************************************************************************)
(* Specifications                                                          *)
(***************************************************************************)
\* The call itself on the dashboard.
DashCallNext ==
    \/ StartVoiceCall
    \/ \E g \in BOOLEAN : MicResult(g)
    \/ DashConnect
    \/ DashDisconnect
    \/ DashCallStarted
    \/ \E r \in Reasons, t \in Clock : DashTransferCall(r, t)
    \/ EndVoiceCall
    \/ DashCallEnded

\* The conversation with the AI agent on the dashboard.
DashChatNext ==
    \/ DashAgentResponse
    \/ \E f \in BOOLEAN, t \in BOOLEAN : DashRecognitionResult(f, t)

\* The negotiation with an agent on the dashboard.
DashNegotiationNext ==
    \/ \E k \in Negs, g \in BOOLEAN : WebRTCGum(k, g)
    \/ \E k \in Negs : WebRTCCreateOffer(k)
    \/ \E k \in Negs : WebRTCSetLocal(k)
    \/ DashWebrtcAnswer
    \/ AnswerSrd
    \/ AnswerFlush
    \/ DashWebrtcIce
    \/ DashWebrtcHangup
    \/ EndCallButton
    \/ HideTimerFires
    \/ \E k \in Negs, c \in {"connected", "disconnected", "failed"} :
          PcStateChange(k, c)

\* The handoff to a human agent on the dashboard.
DashHandoffNext ==
    \/ \E a \in Agents : DashAgentReady(a)
    \/ DashNegotiationNext

\* The dashboard's negotiation when the agent sends no candidates.
DashSignalNext ==
    \/ \E k \in Negs, g \in BOOLEAN : WebRTCGum(k, g)
    \/ \E k \in Negs : WebRTCCreateOffer(k)
    \/ \E k \in Negs : WebRTCSetLocal(k)
    \/ DashWebrtcAnswer
    \/ AnswerSrd
    \/ DashWebrtcHangup
    \/ EndCallButton
    \/ HideTimerFires
    \/ \E k \in Negs, c \in {"connected", "disconnected", "failed"} :
          PcStateChange(k, c)

\* The conversation with the human agent on the dashboard.
DashHumanNext ==
    \/ DashCallTranscript
    \/ \E k \in Negs, f \in BOOLEAN, t \in BOOLEAN :
          TransferRecognitionResult(k, f, t)
    \/ \E k \in Negs, c \in BOOLEAN : LocalIceCandidate(k, c)
    \/ DashNoAgents

\* The call itself on the voice page.
VoiceCallNext ==
    \/ VoiceConnect
    \/ VoiceDisconnect
    \/ StartCall
    \/ \E g \in BOOLEAN : VoiceMicResult(g)
    \/ \E id \in Sessions : VoiceCallStarted(id)
    \/ \E id \in Sessions, r \in Reasons, t \in Clock, p \in BOOLEAN :
          VoiceTransferCall(id, r, t, p)
    \/ \E id \in Sessions, d \in {0, 1} : VoiceCallEnded(id, d)
    \/ EndCall

\* The conversation with the AI agent on the voice page.
VoiceChatNext ==
    \/ VoiceAgentResponse
    \/ \E f \in BOOLEAN, t \in BOOLEAN : VoiceRecognitionResult(f, t)

VoiceNext ==
    \/ VoiceCallNext
    \/ VoiceChatNext

\* Both pages, every event.
Next ==
    \/ DashCallNext
    \/ DashChatNext
    \/ DashHandoffNext
    \/ DashHumanNext
    \/ \E a \in Agents : DashAgentReadyUnasked(a)
    \/ AnswerFlushRejected
    \/ DashWebrtcIceRejected
    \/ VoiceNext

Spec == Init /\ [][Next]_vars

\* Spec with an environment in which no agent answers a transfer request.
CallNext ==
    \/ DashCallNext
    \/ DashChatNext
    \/ VoiceNext

SpecCall == Init /\ [][CallNext]_vars

\* SpecCall with an environment that is silent during the conversation and
\* a page that makes TransferSessions calls: the events of starting,
\* transferring and ending a call on both pages.
TransferStartVoiceCall == sess < TransferSessions /\ StartVoiceCall

TransferStartCall == sess < TransferSessions /\ StartCall

TransferNext ==
    \/ TransferStartVoiceCall
    \/ \E g \in BOOLEAN : MicResult(g)
    \/ DashConnect
    \/ DashDisconnect
    \/ DashCallStarted
    \/ \E r \in Reasons, t \in Clock : DashTransferCall(r, t)
    \/ EndVoiceCall
    \/ DashCallEnded
    \/ VoiceConnect
    \/ VoiceDisconnect
    \/ TransferStartCall
    \/ \E g \in BOOLEAN : VoiceMicResult(g)
    \/ \E id \in Sessions : VoiceCallStarted(id)
    \/ \E id \in Sessions, r \in Reasons, t \in Clock, p \in BOOLEAN :
          VoiceTransferCall(id, r, t, p)
    \/ \E id \in Sessions, d \in {0, 1} : VoiceCallEnded(id, d)
    \/ EndCall

SpecTransfer == Init /\ [][TransferNext]_vars

\* Spec on the dashboard with an environment that is silent during the
\* conversation with the AI agent: the backend sends call_started once, the
\* transport does not drop before the call has started, and the page makes
\* HandoffSessions calls.
HandoffInit == Init /\ Dash

HandoffStartVoiceCall == sess < HandoffSessions /\ StartVoiceCall

HandoffCallStarted == ~voiceCallActive /\ DashCallStarted

HandoffDisconnect == voiceCallActive /\ DashDisconnect

HandoffCallNext ==
    \/ HandoffStartVoiceCall
    \/ \E g \in BOOLEAN : MicResult(g)
    \/ DashConnect
    \/ HandoffDisconnect
    \/ HandoffCallStarted
    \/ \E r \in Reasons, t \in Clock : DashTransferCall(r, t)
    \/ EndVoiceCall
    \/ DashCallEnded

HandoffNext ==
    \/ HandoffCallNext
    \/ DashHandoffNext

SpecHandoff == HandoffInit /\ [][HandoffNext]_vars

\* The conversation with the human agent: a dashboard call whose agent sends
\* no candidates, with what is said and heard in both phases.
\* ... and in which one agent answers the transfer request, once.
HumanAgentReady == negCount = 0 /\ \E a \in Agents : DashAgentReady(a)

HumanNext ==
    \/ HandoffCallNext
    \/ DashChatNext
    \/ HumanAgentReady
    \/ DashSignalNext
    \/ DashHumanNext

SpecHuman == HandoffInit /\ [][HumanNext]_vars

\* SpecHuman when the agent has gone and nothing it sends arrives.  What the
\* page can count on is what runs without the peer, the backend or the
\* user: pending continuations of startWebRTCCall and of the answer handler,
\* the timeout of endWebRTCCall, and the browser's detection that the
\* connection has lost its peer.
LocalFairness ==
    /\ WF_vars(\E k \in Negs, g \in BOOLEAN : WebRTCGum(k, g))
    /\ WF_vars(\E k \in Negs : WebRTCCreateOffer(k))
    /\ WF_vars(\E k \in Negs : WebRTCSetLocal(k))
    /\ WF_vars(AnswerSrd)
    /\ WF_vars(HideTimerFires)
    /\ WF_vars(\E k \in Negs : PcStateChange(k, "disconnected"))
    /\ WF_vars(\E k \in Negs : PcStateChange(k, "failed"))

SpecLost == HandoffInit /\ [][HumanNext]_vars /\ LocalFairness

\* Speech on both pages: SpecHuman on the dashboard, and on the voice page a
\* call with its conversation.
VoiceSpeechNext ==
    \/ VoiceConnect
    \/ VoiceDisconnect
    \/ TransferStartCall
    \/ \E g \in BOOLEAN : VoiceMicResult(g)
    \/ \E id \in Sessions : VoiceCallStarted(id)
    \/ \E id \in Sessions, d \in {0, 1} : VoiceCallEnded(id, d)
    \/ EndCall
    \/ VoiceChatNext

SpeechNext ==
    \/ HumanNext
    \/ VoiceSpeechNext

SpecSpeech == Init /\ [][SpeechNext]_vars

\* The negotiation of one call with one agent whose candidates may be
\* rejected by addIceCandidate.
IceNext ==
    \/ HandoffCallNext
    \/ HumanAgentReady
    \/ DashNegotiationNext
    \/ AnswerFlushRejected
    \/ DashWebrtcIceRejected

SpecIce == HandoffInit /\ [][IceNext]_vars

\* SpecHuman with an agent that may also answer a session that has asked
\* for no transfer.
UnaskedAgentReady == negCount = 0 /\ \E a \in Agents : DashAgentReadyUnasked(a)

UnaskedNext ==
    \/ HumanNext
    \/ UnaskedAgentReady

SpecUnasked == HandoffInit /\ [][UnaskedNext]_vars

\* Two calls in a row on the dashboard, each transferred to one agent that
\* sends no candidates.
FirstAgentReady ==
    /\ \A k \in Negs : wtask[k].sid # voiceSocket
    /\ \E a \in Agents : DashAgentReady(a)

SessionsNext ==
    \/ StartVoiceCall
    \/ \E g \in BOOLEAN : MicResult(g)
    \/ DashConnect
    \/ HandoffDisconnect
    \/ HandoffCallStarted
    \/ \E r \in Reasons, t \in Clock : DashTransferCall(r, t)
    \/ EndVoiceCall
    \/ DashCallEnded
    \/ FirstAgentReady
    \/ DashSignalNext

SpecSessions == HandoffInit /\ [][SessionsNext]_vars

(***************************************************************************)
(* Session state as the page shows it                                      *)
(***************************************************************************)
\* The state of session s on the dashboard, read from voiceSocket,
\* voiceCallActive, window.transferSessionId and window.peerConnection.
DState(s) ==
    IF s > sess \/ startCalls[s] = 0 THEN "idle"
    ELSE IF voiceSocket # s THEN "ended"
    ELSE IF ~voiceCallActive THEN "connecting"
    ELSE IF /\ peerConnection # NULL
            /\ wtask[peerConnection].sid = s
            /\ pcs[peerConnection].conn = "connected" THEN "human_active"
    ELSE IF transferSessionId = s THEN "transferring"
    ELSE "ai_active"

\* endCall has run for session id of the voice page.
VEnded(id) == id \in 1..sess /\ (id < sess \/ ~isInCall)

\* The state of session id on the voice page, read from isInCall, sessionId
\* and the transfer notice in the transcript.
VState(id) ==
    IF id > sess THEN "idle"
    ELSE IF VEnded(id) THEN "ended"
    ELSE IF sessionId # id THEN "connecting"
    ELSE IF "transfer" \in Range(transcript) THEN "transferring"
    ELSE "ai_active"

Edges ==
    { <<"idle", "connecting">>, <<"connecting", "ai_active">>,
      <<"ai_active", "transferring">>, <<"transferring", "human_active">>,
      <<"transferring", "ai_active">>, <<"transferring", "ended">>,
      <<"ai_active", "ended">>, <<"human_active", "ended">> }

OffersOf(s) == {i \in 1..Len(offers) : offers[i].sid = s}

TasksOf(s) == {k \in Negs : wtask[k].sid = s}

\* The agent of the first agent_ready_for_call of session s.
FirstResponder(s) ==
    wtask[CHOOSE k \in TasksOf(s) : \A j \in TasksOf(s) : k <= j].agent

(***************************************************************************)
(* Properties                                                              *)
(***************************************************************************)
\* C1: first accept wins.  For one session at most one RTCPeerConnection is
\* created and at most one webrtc_offer is emitted, the offer goes to the
\* first agent that answered, and later agent_ready_for_call events leave
\* window.agentSocketId at that agent.
C1_FirstAcceptWins ==
    \A s \in Sessions :
        /\ pcMade[s] <= 1
        /\ Cardinality(OffersOf(s)) <= 1
        /\ \A i \in OffersOf(s) : offers[i].target = FirstResponder(s)
        /\ (TasksOf(s) # {} /\ transferSessionId = s)
              => agentSocketId = FirstResponder(s)

C3_StateGraph ==
    [][ \A s \in Sessions :
           Dash => \/ DState(s)' = DState(s)
                   \/ <<DState(s), DState(s)'>> \in Edges ]_vars

\* C4: ended is terminal.  On the dashboard an ended session stays ended and
\* no task emits a message for it; on the voice page an ended session is
\* never again the session the page acts for.
C4_EndedTerminal ==
    [][ \A s \in Sessions :
           /\ (Dash /\ DState(s) = "ended")
                 => /\ DState(s)' = "ended"
                    /\ \A i \in 1..Len(out') : out'[i].sid # s
           /\ (Voice /\ VEnded(s)') => sessionId' # s ]_vars

\* C5: a startWebRTCCall begun by an agent_ready_for_call that arrived after
\* endWebRTCCall had closed a connection of the session creates no
\* RTCPeerConnection and emits no webrtc_offer.
C5_NoReopen ==
    \A k \in Negs :
        wtask[k].late => /\ pcs[k].st = "none"
                         /\ \A i \in 1..Len(offers) : offers[i].pc # k

\* C6: a transfer_call for a session that is transferring or human_active
\* emits nothing and leaves the stored transfer session, the negotiation
\* and the transfer window as they are.
C6_SecondTransferIgnored ==
    [][ /\ \A r \in Reasons, t \in Clock :
              (/\ DashTransferCall(r, t)
               /\ DState(voiceSocket) \in {"transferring", "human_active"})
                 => out' = <<>> /\ UNCHANGED <<xferVars, negVars>>
        /\ \A id \in Sessions, r \in Reasons, t \in Clock, p \in BOOLEAN :
              (/\ VoiceTransferCall(id, r, t, p)
               /\ VState(id) \in {"transferring", "human_active"})
                 => out' = <<>> /\ UNCHANGED jitsiWindow ]_vars

C8_DuplicateStartIgnored ==
    [][ /\ (DashCallStarted /\ voiceCallActive)
              => UNCHANGED <<dashCore, transcript>>
        /\ \A id \in Sessions :
              (VoiceCallStarted(id) /\ isInCall /\ sessionId = id)
                 => UNCHANGED <<voiceVars, transcript>> ]_vars

\* C9: at most one end_call is emitted for a session.
C9_EndOnce == \A s \in Sessions : endCalls[s] <= 1

\* C10: a webrtc_hangup received in human_active ends the session: the
\* call is no longer active and its duration timer is stopped.
C10_HangupEnds ==
    [][ (DashWebrtcHangup /\ DState(voiceSocket) = "human_active")
           => /\ DState(voiceSocket)' = "ended"
              /\ ~voiceCallActive'
              /\ ~voiceTimerInterval' ]_vars

(***************************************************************************)
(* Transcripts                                                             *)
(***************************************************************************)
IsPrefix(a, b) == Len(a) <= Len(b) /\ SubSeq(b, 1, Len(a)) = a

\* C11: the transcript is append-only within a session: while the page stays
\* in one running call, what each transcript element shows before a step is
\* a prefix of what it shows after the step.
C11_AppendOnly ==
    [][ (/\ voiceSocket # NULL
         /\ voiceSocket' = voiceSocket
         /\ voiceCallActive
         /\ voiceCallActive')
        => /\ IsPrefix(transcript, transcript')
           /\ IsPrefix(transferTranscript, transferTranscript') ]_vars

\* C12: the entries of the human phase (a received call_transcript, a final
\* result of the transfer recognizer) are appended, in arrival order, to the
\* sequence that holds the entries of the AI phase; none is left out.
C12_OneSequence ==
    [][ /\ DashCallTranscript => transcript' = Append(transcript, "agent")
        /\ (\E k \in Negs : TransferRecognitionResult(k, TRUE, TRUE))
           => transcript' = Append(transcript, "customer") ]_vars

Relayed(msgs) ==
    \E i \in 1..Len(msgs) : msgs[i].type \in {"user_message", "call_transcript"}

\* C13: only final recognition results with non-empty trimmed text are
\* relayed: a result that is interim or empty emits nothing and appends
\* nothing, on each of the three recognizers, and user_message and
\* call_transcript are emitted by no other step.
C13_OnlyFinalRelayed ==
    [][ /\ \A f \in BOOLEAN, t \in BOOLEAN :
             (/\ ~(f /\ t)
              /\ \/ DashRecognitionResult(f, t)
                 \/ VoiceRecognitionResult(f, t)
                 \/ \E k \in Negs : TransferRecognitionResult(k, f, t))
             => /\ out' = <<>>
                /\ transcript' = transcript
                /\ transferTranscript' = transferTranscript
        /\ Relayed(out')
             => \/ DashRecognitionResult(TRUE, TRUE)
                \/ VoiceRecognitionResult(TRUE, TRUE)
                \/ \E k \in Negs : TransferRecognitionResult(k, TRUE, TRUE) ]_vars

\* A final result of the transfer recognizer has been shown and relayed.
C13_Witness ==
    /\ Relayed(out)
    /\ out[1].type = "call_transcript"
    /\ transferTranscript # <<>>
    /\ transferTranscript[Len(transferTranscript)] = "customer"

(***************************************************************************)
(* Resources                                                               *)
(***************************************************************************)
\* C14: on every path by which the dashboard's session ends, the microphone
\* stream of the transfer is stopped and no peer connection is left open.
C14_MediaReleased ==
    [][ (voiceSocket # NULL /\ voiceSocket' = NULL)
        => /\ localStream' = NULL
           /\ peerConnection' = NULL
           /\ \A k \in Negs : pcs'[k].st \in {"none", "closed"} ]_vars

\* C15: the call-duration timer is cleared on every path that leaves the
\* active states: after endVoiceCall, endCall, a call_ended of the running
\* session or a socket disconnect, no call-duration interval is scheduled.
C15_TimerCleared ==
    [][ (\/ EndVoiceCall
         \/ DashCallEnded
         \/ DashDisconnect
         \/ EndCall
         \/ VoiceDisconnect
         \/ \E d \in {0, 1} : isInCall /\ sessionId # NULL
                              /\ VoiceCallEnded(sessionId, d))
        => liveTimers' = 0 ]_vars

(***************************************************************************)
(* No agent available                                                      *)
(***************************************************************************)
\* C16: handling no_agents_available shows a notice and changes nothing
\* else: the session keeps its state (transferring stays transferring), the
\* call stays active, the socket connected and the timer running, nothing is
\* emitted, and the transfer session id, the agent address, the peer
\* connection and the queue of candidates are as before, so that the
\* handler of agent_ready_for_call accepts an agent exactly when it would
\* have before.
C16_NoAgentsKeepsSession ==
    [][ DashNoAgents
        => /\ noAgentNotices' = noAgentNotices + 1
           /\ out' = <<>>
           /\ ~fault'
           /\ UNCHANGED <<voiceSocket, sockConnected, voiceCallActive,
                          voiceTimerInterval, liveTimers, voiceRecognition,
                          transferSessionId, agentSocketId, peerConnection,
                          pendingIceCandidates, pcs, wtask, localStream>>
           /\ DState(voiceSocket)' = DState(voiceSocket)
           /\ DState(voiceSocket) = "transferring"
                 => /\ voiceCallActive'
                    /\ sockConnected'
                    /\ voiceTimerInterval'
                    /\ liveTimers' > 0 ]_vars

\* The notice has been shown in a transferring session that no agent has
\* answered.
C16_Witness ==
    /\ Dash
    /\ noAgentNotices > 0
    /\ ~waiting
    /\ voiceSocket # NULL
    /\ DState(voiceSocket) = "transferring"
    /\ peerConnection = NULL
    /\ negCount = 0
    /\ voiceTimerInterval

C18_LocalTimeoutEnds ==
    (/\ Dash
     /\ voiceSocket # NULL
     /\ DState(voiceSocket) \in {"transferring", "human_active"})
    ~> (voiceSocket = NULL)

\* C19: when the socket disconnects while the dashboard's call is ai_active
\* or human_active, the session ends: the call is marked inactive, the timer
\* and every recognizer of the call are stopped, and the handler does not
\* throw.
C19_DisconnectEnds ==
    [][ (/\ DashDisconnect
         /\ voiceCallActive
         /\ DState(voiceSocket) \in {"ai_active", "human_active"})
        => /\ voiceSocket' = NULL
           /\ ~voiceCallActive'
           /\ ~voiceTimerInterval'
           /\ liveTimers' = 0
           /\ ~voiceRecognition'
           /\ ~transferRecognition'
           /\ ~fault' ]_vars

\* C20: every handler runs to completion: no step of the page ends with an
\* uncaught exception.
C20_NoFault == ~fault

(***************************************************************************)
(* Errors of the microphone and of the negotiation                         *)
(***************************************************************************)
\* C21: a rejected getUserMedia is fatal to starting a call on either page:
\* nothing is emitted, no session is begun (no socket, no call flag, no
\* timer, no recognizer), the error is shown, and no further getUserMedia is
\* pending.
C21_MicErrorFatal ==
    [][ (MicResult(FALSE) \/ VoiceMicResult(FALSE))
        => /\ out' = <<>>
           /\ ~fault'
           /\ micError'
           /\ micStart' = "none"
           /\ vMic' = "none"
           /\ UNCHANGED <<sess, startCalls, voiceSocket, sockConnected,
                          voiceCallActive, voiceTimerInterval, liveTimers,
                          voiceRecognition, recogMade, isInCall, sessionId,
                          timerInterval, isListening, callStreamLive,
                          transcript>> ]_vars

\* The microphone has been refused to a page that had a call before.
C21_Witness ==
    /\ micError
    /\ sess = 1
    /\ micStart = "none"
    /\ vMic = "none"
    /\ voiceSocket = NULL
    /\ ~isInCall

(***************************************************************************)
(* Transfer attempts                                                       *)
(***************************************************************************)
RoomsOf(msgs) ==
    {msgs[i].room : i \in {j \in 1..Len(msgs) :
                              msgs[j].type = "agent_transfer_room"}}

\* C22: every transfer attempt uses a fresh room identifier: the room that a
\* transfer_call handler requests differs from the room requested by the
\* handler that ran just before it.
C22_FreshRoom ==
    [][ RoomsOf(out) \cap RoomsOf(out') = {} ]_vars

\* C23: sessions are isolated: the first agent_ready_for_call of a session
\* is accepted and its negotiation started, as on a page that has had no
\* call before.
C23_SessionsIsolated ==
    [][ (/\ TasksOf(voiceSocket) = {}
         /\ \E a \in Agents : DashAgentReady(a))
        => /\ TasksOf(voiceSocket)' # {}
           /\ ~fault' ]_vars

\* C24: when the connection of the running negotiation fails or is
\* disconnected, or on a hangup (received, or the End Call button),
\* endWebRTCCall stops the local stream, closes the peer connection, stops
\* the transfer recognizer and emits webrtc_hangup with the session id and
\* the address of the agent of that negotiation.
C24_TeardownNotifies ==
    [][ (/\ peerConnection # NULL
         /\ \/ EndCallButton
            \/ DashWebrtcHangup
            \/ \E c \in {"disconnected", "failed"} :
                  PcStateChange(peerConnection, c))
        => /\ localStream' = NULL
           /\ peerConnection' = NULL
           /\ pcs'[peerConnection] = ClosedPc
           /\ ~transferRecognition'
           /\ ~fault'
           /\ out' = <<Msg("webrtc_hangup", wtask[peerConnection].sid,
                           wtask[peerConnection].agent, <<>>, "")>> ]_vars

\* C25: late results are not applied to a finished negotiation: a candidate
\* that arrives after endWebRTCCall has closed the session's connection is
\* neither applied nor queued, and a startWebRTCCall whose call has ended
\* while it awaited getUserMedia creates no peer connection, keeps no stream
\* and goes on to no offer.
C25_LateResultsIgnored ==
    [][ /\ (DashWebrtcIce /\ peerConnection = NULL /\ HungUp(voiceSocket))
           => /\ pendingIceCandidates' = pendingIceCandidates
              /\ applied' = applied
        /\ \A k \in Negs :
             ((\E g \in BOOLEAN : WebRTCGum(k, g)) /\ wtask[k].sid # voiceSocket)
             => /\ peerConnection' = peerConnection
                /\ localStream' = localStream
                /\ pcMade' = pcMade
                /\ wtask'[k].step = "done" ]_vars

\* C26: agent_ready_for_call starts a negotiation only while the session is
\* transferring: in any other state the handler records no agent and calls
\* no startWebRTCCall, so that no microphone is acquired, no peer connection
\* created and no offer sent.
C26_OnlyWhileTransferring ==
    [][ (/\ \E a \in Agents : DashAgentReady(a) \/ DashAgentReadyUnasked(a)
         /\ DState(voiceSocket) # "transferring")
        => UNCHANGED <<negCount, wtask, agentSocketId, transferSessionId>> ]_vars

\* C27: when the customer ends the call (endVoiceCall) while the session is
\* transferring, end_call is emitted and the negotiation state is cleaned
\* up: afterwards the queue of candidates is empty and there is no peer
\* connection, no local stream, no agent address and no transfer session id.
C27_EndCleansNegotiation ==
    [][ (/\ EndVoiceCall
         /\ voiceSocket # NULL
         /\ DState(voiceSocket) = "transferring")
        => /\ out' = <<Msg("end_call", voiceSocket, NULL, <<>>, "")>>
           /\ pendingIceCandidates' = <<>>
           /\ peerConnection' = NULL
           /\ localStream' = NULL
           /\ agentSocketId' = NULL
           /\ transferSessionId' = NULL ]_vars

\* C28: a rejected addIceCandidate drops only that candidate.  When the
\* rejected one was flushed from the queue, the loop goes on as after a
\* success: the next queued candidate is passed to addIceCandidate, and
\* after the last one the queue is emptied.  Flushed or live, the rejection
\* throws nothing and leaves the peer connection, the call and the transfer
\* as they were.
C28_RejectionDropsOne ==
    [][ /\ AnswerFlushRejected
           => /\ ~fault'
              /\ UNCHANGED <<pcs, peerConnection, localStream, voiceSocket,
                             voiceCallActive, transferSessionId, agentSocketId>>
              /\ peerConnection # NULL
                    => IF ansTask.idx <= Len(pendingIceCandidates)
                       THEN /\ applied' = Append(applied,
                                            pendingIceCandidates[ansTask.idx])
                            /\ pendingIceCandidates' = pendingIceCandidates
                            /\ ansTask'.step = "flush"
                       ELSE /\ pendingIceCandidates' = <<>>
                            /\ applied' = applied
                            /\ ansTask' = NoAns
        /\ (DashWebrtcIceRejected /\ rejected' # rejected)
           => /\ ~fault'
              /\ pendingIceCandidates' = pendingIceCandidates
              /\ UNCHANGED <<pcs, peerConnection, localStream, voiceSocket,
                             voiceCallActive, transferSessionId, agentSocketId,
                             ansTask>> ]_vars

\* The first queued candidate was rejected, the second was applied after it
\* and the queue is empty.
C28_Witness ==
    /\ queued = {1, 2}
    /\ rejected = {1}
    /\ applied = <<1, 2>>
    /\ pendingIceCandidates = <<>>
    /\ ansTask = NoAns
    /\ peerConnection # NULL

\* C28 as written: after a rejected addIceCandidate of the flush, the
\* remaining queued candidates are still applied in order and the queue is
\* emptied, whatever else has happened.
C28_RemainingApplied ==
    [][ AnswerFlushRejected
        => IF ansTask.idx <= Len(pendingIceCandidates)
           THEN /\ applied' = Append(applied, pendingIceCandidates[ansTask.idx])
                /\ skipped' = skipped
           ELSE /\ pendingIceCandidates' = <<>>
                /\ applied' = applied ]_vars

(***************************************************************************)
(* Emissions of one attempt                                                *)
(***************************************************************************)
\* C29: for one call attempt of the dashboard (one socket of initVoiceCall)
\* start_call is emitted once, however often the socket connects.
C29_StartCallOnce ==
    Dash => \A s \in Sessions : startCalls[s] <= 1

\* C30: at most one webrtc_hangup is emitted per negotiation: when
\* endWebRTCCall runs again after it has closed the connection of the
\* session's negotiation (a received webrtc_hangup, the End Call button
\* pressed again), it emits nothing.
C30_OneHangup ==
    [][ (/\ EndCallButton \/ DashWebrtcHangup
         /\ peerConnection = NULL
         /\ transferSessionId # NULL
         /\ HungUp(transferSessionId)
         /\ \A k \in Negs : wtask[k].sid = transferSessionId
                               => pcs[k].st \in {"none", "closed"})
        => out' = <<>> ]_vars

====
